---- MODULE Spec2Model ----
(***************************************************************************)
(* Model of the Shakespeare search service: the Flask endpoints of app.py  *)
(* and SearchBackend.search_shakespeare_hybrid of search_backend.py, which *)
(* fuses a lexical and a dense-semantic hit list by Reciprocal Rank Fusion. *)
(*                                                                         *)
(* The search engine is an external collaborator: its answer to the        *)
(* current query is the pair of ranked line_id lists lexDocs / semDocs,    *)
(* and every engine call of a request may raise.                           *)
(*                                                                         *)
(* Scores: the code computes 1.0 / (i + 1 + k) in binary floating point.   *)
(* The model keeps the exact rational, scaled by ScoreUnit (the least      *)
(* common multiple of the denominators that can occur), so that equality   *)
(* and order of scores are exact.  For the ranks of the model the float    *)
(* sums tie exactly when the rationals tie; from rank 10 on some rational  *)
(* ties are broken by rounding, which the bounds stay below.               *)
(***************************************************************************)
EXTENDS Integers, Sequences, FiniteSets, TLC

VARIABLES
    search_backend,     \* app.py global: "unset" before import, then "ok" or "none"
    backend_attrs,      \* attributes of the SearchBackend object, a dict name -> value
    lexDocs,            \* engine: ranked line_ids index "shakespeare" returns
    semDocs,            \* engine: ranked line_ids index "shakespeare-semantic" returns
    semExists,          \* engine: does index "shakespeare-semantic" exist
    req,                \* the request being answered (NoReq when none)
    calls,              \* engine calls issued by the request, in order
    term_results,       \* local of search_shakespeare_hybrid
    semantic_results,   \* local of search_shakespeare_hybrid (None or a result)
    rrf_scores,         \* local: dict line_id -> score, in insertion order
    sorted_line_ids,    \* local: the unpaginated fused order
    hits_by_id,         \* local: dict line_id -> hit
    resp,               \* the HTTP response in flight (NoResp when none)
    kept,               \* client: the last response it kept, with what produced it
    script,             \* the ingest script or function being run: name, position, locals
    cluster             \* engine: what the ingest scripts meet besides the two indexes

vars == <<search_backend, backend_attrs, lexDocs, semDocs, semExists, req, calls, term_results,
          semantic_results, rrf_scores, sorted_line_ids, hits_by_id, resp,
          kept, script, cluster>>

backend == <<search_backend, backend_attrs>>
engine == <<lexDocs, semDocs, semExists>>
offline == <<script, cluster>>
locals == <<term_results, semantic_results, rrf_scores, sorted_line_ids, hits_by_id>>

(***************************************************************************)
(* Bounds                                                                  *)
(***************************************************************************)
\* line_ids of the documents of the corpus
Corpus == {1, 2, 3, 4}
\* play_name of the documents: odd line_ids in one play, even ones in the other
Plays == {"Hamlet", "Macbeth"}
play_name(line_id) == IF line_id % 2 = 1 THEN "Hamlet" ELSE "Macbeth"
\* longest ranked list the lexical query returns
MaxLen == 3
\* longest ranked list the dense-semantic query returns
MaxSemLen == 2
\* largest page offset a fresh request asks for (smallest is -1)
MaxFrom == 1
\* largest page size a request asks for (smallest is -1)
MaxSize == 2

\* longest input file of load_shakespeare_data, in lines
MaxLines == 5
\* polls of the reindex task that are told apart
MaxPolls == 3

\* deploy_elser_model: max_wait_time = 300, time.sleep(10)
max_wait_time == 300
sleep_seconds == 10

\* RRF constant
k == 60
\* data.get('size', 20)
default_size == 20
\* candidate depth: both retrievals ask for offset 0, limit 100
rank_window_size == 100

None == [kind |-> "None"]
NoReq == [kind |-> "none"]
NoResp == [status |-> 0]
NoKept == [kind |-> "none"]
NoScript == [name |-> "none"]
NoCluster == [kind |-> "none"]

RECURSIVE Gcd(_, _)
Gcd(a, b) == IF b = 0 THEN a ELSE Gcd(b, a % b)

Lcm(a, b) == (a \div Gcd(a, b)) * b

RECURSIVE LcmUpTo(_)
\* least common multiple of k + 1 .. k + n
LcmUpTo(n) == IF n = 0 THEN 1 ELSE Lcm(LcmUpTo(n - 1), k + n)

\* one unit of score is 1 / ScoreUnit
ScoreUnit == LcmUpTo(MaxLen)

(***************************************************************************)
(* Python values                                                           *)
(***************************************************************************)
\* a dict is the sequence of its <<key, value>> items in insertion order
DictHas(d, key) == \E n \in 1..Len(d) : d[n][1] = key

DictGet(d, key, default) ==
    IF DictHas(d, key)
    THEN d[CHOOSE n \in 1..Len(d) : d[n][1] = key][2]
    ELSE default

\* d[key] = val: a present key keeps its place, a new key goes last
DictSet(d, key, val) ==
    IF DictHas(d, key)
    THEN [n \in 1..Len(d) |-> IF d[n][1] = key THEN <<key, val>> ELSE d[n]]
    ELSE Append(d, <<key, val>>)

DictKeys(d) == [n \in 1..Len(d) |-> d[n][1]]

\* seq[start:stop] with Python's treatment of negative and oversized indices
PyIndex(n, len) == IF n < 0 THEN (IF n + len < 0 THEN 0 ELSE n + len)
                   ELSE (IF n > len THEN len ELSE n)

PySlice(seq, start, stop) ==
    LET lo == PyIndex(start, Len(seq))
        hi == PyIndex(stop, Len(seq))
    IN  IF lo < hi THEN SubSeq(seq, lo + 1, hi) ELSE <<>>

RECURSIVE InsertDescTiesFirst(_, _, _)
\* x goes before the elements whose key equals its own
InsertDescTiesFirst(done, x, d) ==
    IF done = <<>> THEN <<x>>
    ELSE IF DictGet(d, Head(done), 0) > DictGet(d, x, 0)
         THEN <<Head(done)>> \o InsertDescTiesFirst(Tail(done), x, d)
         ELSE <<x>> \o done

RECURSIVE InsertDesc(_, _, _)
\* x goes behind every element whose key is >= its own
InsertDesc(done, x, d) ==
    IF done = <<>> THEN <<x>>
    ELSE IF DictGet(d, Head(done), 0) >= DictGet(d, x, 0)
         THEN <<Head(done)>> \o InsertDesc(Tail(done), x, d)
         ELSE <<x>> \o done

RECURSIVE SortedDesc(_, _)
\* sorted(keys, key=lambda x: d[x], reverse=True): stable, descending
SortedDesc(keys, d) ==
    IF keys = <<>> THEN <<>>
    ELSE InsertDesc(SortedDesc(SubSeq(keys, 1, Len(keys) - 1), d), keys[Len(keys)], d)

(***************************************************************************)
(* search_backend.py                                                       *)
(***************************************************************************)
\* the result hit built from the pos-th document of an engine response
Hit(index, pos, id) ==
    [line_id |-> id, play_name |-> play_name(id),
     text_entry |-> <<index, pos>>, highlight |-> <<index, pos>>]

\* "order": {"_key": "asc"}: the buckets of the plays aggregation by name
PlayOrder == <<"Hamlet", "Macbeth">>

Count(docs, play) == Cardinality({n \in 1..Len(docs) : play_name(docs[n]) = play})

RECURSIVE Buckets(_, _)
\* results["aggregations"]["plays"]: one {name, count} per play with a match
Buckets(docs, plays) ==
    IF plays = <<>> THEN <<>>
    ELSE (IF Count(docs, Head(plays)) > 0
          THEN <<[name |-> Head(plays), count |-> Count(docs, Head(plays))]>>
          ELSE <<>>)
         \o Buckets(docs, Tail(plays))

RECURSIVE Filter(_, _)
\* if selected_plays: {"terms": {"play_name": selected_plays}}, as the engine
\* applies it; an empty selection adds no clause
Filter(docs, selected_plays) ==
    IF docs = <<>> THEN <<>>
    ELSE (IF selected_plays = {} \/ play_name(Head(docs)) \in selected_plays
          THEN <<Head(docs)>> ELSE <<>>)
         \o Filter(Tail(docs), selected_plays)

\* a search method of SearchBackend on a healthy engine: the matches of the
\* filter in ranked order, cut to the window
SearchIndex(index, docs, selected_plays, from_, size) ==
    LET matches == Filter(docs, selected_plays)
        page    == PySlice(matches, from_, from_ + size)
    IN  [total |-> Len(matches),
         hits |-> [n \in 1..Len(page) |-> Hit(index, n, page[n])],
         aggregations |-> Buckets(matches, PlayOrder)]

search_shakespeare(selected_plays, from_, size) ==
    SearchIndex("shakespeare", lexDocs, selected_plays, from_, size)

\* the ranking of the sparse retrieval is the one the semantic index returns
search_shakespeare_semantic_sparse(selected_plays, from_, size) ==
    SearchIndex("shakespeare-semantic", semDocs, selected_plays, from_, size)

\* the dense query carries no filter clause
search_shakespeare_semantic_denseUnfiltered(selected_plays, from_, size) ==
    SearchIndex("shakespeare-semantic", semDocs, {}, from_, size)

search_shakespeare_semantic_dense(selected_plays, from_, size) ==
    SearchIndex("shakespeare-semantic", semDocs, selected_plays, from_, size)

\* the clause of the query string of each search method
TextClause(method, query) ==
    IF method = "search_shakespeare"
    THEN [clause |-> "bool", should |-> <<"match_phrase", "match_phrase",
                                         "multi_match", "match">>,
          field |-> "text_entry", query |-> query]
    ELSE IF method = "search_shakespeare_semantic_sparse"
    THEN [clause |-> "sparse_vector", field |-> "text_entry_embedding", query |-> query]
    ELSE [clause |-> "semantic", field |-> "text_entry_dense", query |-> query]

TermsClause(selected_plays) == [clause |-> "terms", play_name |-> selected_plays]

\* the filter clause is left out of the must list
must_clausesQueryOnly(method, query, selected_plays) ==
    IF query # "" THEN <<TextClause(method, query)>> ELSE <<>>

\* if query: must_clauses.append(...); if selected_plays: must_clauses.append(...)
must_clauses(method, query, selected_plays) ==
    (IF query # "" THEN <<TextClause(method, query)>> ELSE <<>>)
    \o (IF selected_plays # {} THEN <<TermsClause(selected_plays)>> ELSE <<>>)

\* the body each search method sends to the engine
search_body(method, query, selected_plays, from_, size) ==
    LET must == must_clauses(method, query, selected_plays)
    IN  [query |-> IF must # <<>> THEN [kind |-> "bool", must |-> must]
                   ELSE [kind |-> "match_all"],
         from_ |-> from_,
         size |-> size]

Methods == {"search_shakespeare", "search_shakespeare_semantic_sparse",
            "search_shakespeare_semantic_dense"}

\* es.search(index=..., body=search_body)
IndexOf(method) ==
    IF method = "search_shakespeare" THEN "shakespeare" ELSE "shakespeare-semantic"

\* an engine call as the engine sees it
SearchCall(index, selected_plays, from_, size) ==
    [api |-> "search", index |-> index, selected_plays |-> selected_plays,
     from_ |-> from_, size |-> size]
ExistsCall == [api |-> "exists", index |-> "shakespeare-semantic"]
LookupCall(line_id) ==
    [api |-> "search", index |-> "shakespeare", line_id |-> line_id,
     from_ |-> 0, size |-> 1]

\* the lexical retrieval follows the paging of the request
TermWindowPaged(r) == [from_ |-> r.from_, size |-> r.size]

\* self.search_shakespeare(query, selected_plays, 0, 100)
TermWindow(r) == [from_ |-> 0, size |-> rank_window_size]

\* self.search_shakespeare_semantic_dense(query, selected_plays, 0, 100)
SemanticWindow(r) == [from_ |-> 0, size |-> rank_window_size]

\* the rank taken 0-based: 1.0 / (i + k), rounded down to the unit
ContributionZeroBased(i) == ScoreUnit \div (i + k)

\* 1.0 / (i + 1 + k), in units of 1 / ScoreUnit
Contribution(i) == ScoreUnit \div (i + 1 + k)

RECURSIVE ScoreHitsOverwrite(_, _, _)
\* scores[id] = 1.0 / (i + 1 + k): a later list replaces the earlier contribution
ScoreHitsOverwrite(scores, hits, i) ==
    IF i >= Len(hits) THEN scores
    ELSE ScoreHitsOverwrite(DictSet(scores, hits[i + 1].line_id, Contribution(i)),
                            hits, i + 1)

RECURSIVE ScoreHits(_, _, _)
\* for i, hit in enumerate(hits): scores[id] = scores.get(id, 0) + 1.0 / (i + 1 + k)
ScoreHits(scores, hits, i) ==
    IF i >= Len(hits) THEN scores
    ELSE LET line_id == hits[i + 1].line_id
         IN  ScoreHits(DictSet(scores, line_id,
                               DictGet(scores, line_id, 0) + Contribution(i)),
                       hits, i + 1)

RECURSIVE TermPayloadsKeepFirst(_, _, _)
\* a lexical hit does not replace an earlier one of the same line_id
TermPayloadsKeepFirst(by_id, hits, n) ==
    IF n > Len(hits) THEN by_id
    ELSE TermPayloadsKeepFirst(IF DictHas(by_id, hits[n].line_id) THEN by_id
                               ELSE DictSet(by_id, hits[n].line_id, hits[n]),
                               hits, n + 1)

RECURSIVE TermPayloads(_, _, _)
\* for hit in term_results["hits"]: hits_by_id[hit["line_id"]] = hit
TermPayloads(by_id, hits, n) ==
    IF n > Len(hits) THEN by_id
    ELSE TermPayloads(DictSet(by_id, hits[n].line_id, hits[n]), hits, n + 1)

RECURSIVE SemanticPayloadsOverwrite(_, _, _)
\* the semantic hit replaces the lexical hit of the same line_id
SemanticPayloadsOverwrite(by_id, hits, n) ==
    IF n > Len(hits) THEN by_id
    ELSE SemanticPayloadsOverwrite(DictSet(by_id, hits[n].line_id, hits[n]), hits, n + 1)

RECURSIVE SemanticPayloads(_, _, _)
\* for hit in semantic hits: if its line_id not in hits_by_id: hits_by_id[...] = hit
SemanticPayloads(by_id, hits, n) ==
    IF n > Len(hits) THEN by_id
    ELSE SemanticPayloads(IF DictHas(by_id, hits[n].line_id) THEN by_id
                          ELSE DictSet(by_id, hits[n].line_id, hits[n]),
                          hits, n + 1)

RECURSIVE Resolve(_, _)
\* [hits_by_id[line_id] for line_id in ids if line_id in hits_by_id]
Resolve(ids, by_id) ==
    IF ids = <<>> THEN <<>>
    ELSE (IF DictHas(by_id, Head(ids)) THEN <<DictGet(by_id, Head(ids), None)>> ELSE <<>>)
         \o Resolve(Tail(ids), by_id)

Faults == {"none", "lexical", "exists", "dense"}

\* the dense-semantic retrieval of a hybrid request: None unless the index
\* exists and neither the existence check nor the query raised
SemanticResults(r) ==
    IF r.fault = "exists" THEN None
    ELSE IF ~semExists THEN None
    ELSE IF r.fault = "dense" THEN None
    ELSE search_shakespeare_semantic_dense(r.selected_plays, SemanticWindow(r).from_,
                                           SemanticWindow(r).size)

\* the lexical retrieval of a hybrid request
TermResults(r) ==
    search_shakespeare(r.selected_plays, TermWindow(r).from_, TermWindow(r).size)

\* the dense query is issued although the lexical query raised
HybridCallsAfterFailure(r) ==
    (IF r.query # "" THEN <<ExistsCall>> ELSE <<>>)
    \o <<SearchCall("shakespeare", r.selected_plays, TermWindow(r).from_,
                    TermWindow(r).size)>>
    \o <<ExistsCall>>
    \o (IF r.fault # "exists" /\ semExists
        THEN <<SearchCall("shakespeare-semantic", r.selected_plays,
                          SemanticWindow(r).from_, SemanticWindow(r).size)>>
        ELSE <<>>)

\* the engine calls of one hybrid request, in the order they are issued
HybridCalls(r) ==
    (IF r.query # "" THEN <<ExistsCall>> ELSE <<>>)
    \o <<SearchCall("shakespeare", r.selected_plays, TermWindow(r).from_,
                    TermWindow(r).size)>>
    \o (IF r.fault = "lexical" THEN <<>>
        ELSE <<ExistsCall>>
             \o (IF r.fault # "exists" /\ semExists
                 THEN <<SearchCall("shakespeare-semantic", r.selected_plays,
                                   SemanticWindow(r).from_, SemanticWindow(r).size)>>
                 ELSE <<>>))

\* only the lexical list is scored
FusedScoresLexicalOnly(term, semantic) == ScoreHits(<<>>, term.hits, 0)

FusedScores(term, semantic) ==
    LET lexical == ScoreHits(<<>>, term.hits, 0)
    IN  IF semantic # None THEN ScoreHits(lexical, semantic.hits, 0) ELSE lexical

RECURSIVE Reverse(_)
Reverse(seq) == IF seq = <<>> THEN <<>> ELSE Append(Reverse(Tail(seq)), Head(seq))

\* sorted(...) without reverse=True
FusedOrderAscending(scores) == Reverse(SortedDesc(Reverse(DictKeys(scores)), scores))

\* the keys are iterated in another order once the client holds a page
FusedOrderUnordered(scores) ==
    IF kept = NoKept THEN SortedDesc(DictKeys(scores), scores)
    ELSE SortedDesc(Reverse(DictKeys(scores)), scores)

FusedOrder(scores) == SortedDesc(DictKeys(scores), scores)

\* only the lexical hits are kept as payloads
PayloadsLexicalOnly(term, semantic) == TermPayloads(<<>>, term.hits, 1)

Payloads(term, semantic) ==
    LET lexical == TermPayloads(<<>>, term.hits, 1)
    IN  IF semantic # None THEN SemanticPayloads(lexical, semantic.hits, 1) ELSE lexical

\* sorted_line_ids[from_:size]
PageStopAtSize(ids, from_, size) == PySlice(ids, from_, size)

Page(ids, from_, size) == PySlice(ids, from_, from_ + size)

Retriever(type, index) == [type |-> type, index |-> index]

\* the list as the literal builds it: the second entry is None without
\* semantic results
RetrieversListed(semantic) ==
    <<Retriever("standard", "shakespeare"),
      IF semantic # None THEN Retriever("semantic_dense", "shakespeare-semantic")
      ELSE None>>

\* the None entry stays in the list
RetrieversUnfiltered(semantic) == RetrieversListed(semantic)

\* [r for r in retrievers if r]
Retrievers(semantic) == SelectSeq(RetrieversListed(semantic), LAMBDA r : r # None)

\* the facet counts of the semantic answer are returned when there is one
HybridResultsSemanticFacets(term, semantic, order, by_id, from_, size) ==
    [total |-> Len(order),
     hits |-> Resolve(Page(order, from_, size), by_id),
     aggregations |-> IF semantic # None THEN semantic.aggregations
                      ELSE term.aggregations,
     retrievers |-> Retrievers(semantic)]

\* "total" taken from the lexical engine response
HybridResultsEngineTotal(term, semantic, order, by_id, from_, size) ==
    [total |-> term.total,
     hits |-> Resolve(Page(order, from_, size), by_id),
     aggregations |-> term.aggregations,
     retrievers |-> Retrievers(semantic)]

\* the dict search_shakespeare_hybrid returns
HybridResults(term, semantic, order, by_id, from_, size) ==
    [total |-> Len(order),
     hits |-> Resolve(Page(order, from_, size), by_id),
     aggregations |-> term.aggregations,
     retrievers |-> Retrievers(semantic)]

(***************************************************************************)
(* app.py                                                                  *)
(***************************************************************************)
Queries == {"", "q"}
FromSet == -1..MaxFrom
SizeSet == -1..MaxSize

\* no hybrid request is being fused: its locals do not exist
NoLocals ==
    /\ term_results' = None
    /\ semantic_results' = None
    /\ rrf_scores' = <<>>
    /\ sorted_line_ids' = <<>>
    /\ hits_by_id' = <<>>

\* try: search_backend = SearchBackend() / except: search_backend = None;
\* __init__ raises without credentials or when the ping fails, and sets self.es
Startup ==
    /\ search_backend = "unset"
    /\ \E credentials \in BOOLEAN, ping \in BOOLEAN :
          /\ search_backend' = IF credentials /\ ping THEN "ok" ELSE "none"
          /\ backend_attrs' = IF credentials /\ ping
                              THEN <<<<"es", "Elasticsearch">>>> ELSE <<>>
    /\ UNCHANGED <<engine, req, calls, locals, resp, kept, offline>>

\* the handler goes on and constructs the backend it did not find
UnavailableRetries(kind) ==
    /\ search_backend = "none"
    /\ req' = [kind |-> kind]
    /\ calls' = <<>>
    /\ NoLocals
    /\ resp' = [status |-> 503, body |-> [error |-> "Search backend not available"]]
    /\ search_backend' = "ok"
    /\ backend_attrs' = <<<<"es", "Elasticsearch">>>>

\* if not search_backend: return ..., 503: answered before the body is read
Unavailable(kind) ==
    /\ search_backend = "none"
    /\ req' = [kind |-> kind]
    /\ calls' = <<>>
    /\ NoLocals
    /\ resp' = [status |-> 503, body |-> [error |-> "Search backend not available"]]
    /\ UNCHANGED backend

\* the handler gives the backend up after a failure
InternalErrorDropsBackend(r, issued) ==
    /\ search_backend = "ok"
    /\ req' = r
    /\ calls' = issued
    /\ NoLocals
    /\ resp' = [status |-> 500, body |-> [error |-> "search failed"]]
    /\ search_backend' = "none"
    /\ backend_attrs' = <<>>

\* except Exception as e: return jsonify({"error": str(e)}), 500
InternalError(r, issued) ==
    /\ search_backend = "ok"
    /\ req' = r
    /\ calls' = issued
    /\ NoLocals
    /\ resp' = [status |-> 500, body |-> [error |-> "search failed"]]
    /\ UNCHANGED backend

\* data = request.get_json() gives no dict: data.get raises inside the try
MalformedBody(r) ==
    /\ r.fault = "body"
    /\ InternalError(r, <<>>)

\* return jsonify(results) of an endpoint that hands one backend call through
Served(r, issued, results) ==
    /\ search_backend = "ok"
    /\ req' = r
    /\ calls' = issued
    /\ NoLocals
    /\ resp' = [status |-> 200, body |-> results]
    /\ UNCHANGED backend

\* a raising lexical query is fused as an empty hit list
LexicalAbsorbed(r) ==
    /\ search_backend = "ok"
    /\ r.fault = "lexical"
    /\ LET term     == SearchIndex("shakespeare", <<>>, {}, 0, rank_window_size)
           semantic == IF semExists
                       THEN search_shakespeare_semantic_dense(r.selected_plays, 0,
                                                              rank_window_size)
                       ELSE None
           scores   == ScoreHits(ScoreHits(<<>>, term.hits, 0),
                                 IF semantic # None THEN semantic.hits ELSE <<>>, 0)
           order    == SortedDesc(DictKeys(scores), scores)
       IN  /\ req' = r
           /\ calls' = HybridCalls(r)
           /\ term_results' = term
           /\ semantic_results' = semantic
           /\ rrf_scores' = scores
           /\ sorted_line_ids' = order
           /\ hits_by_id' = <<>>
           /\ resp' = [status |-> 200,
                       body |-> [total |-> Len(order), hits |-> <<>>,
                                 aggregations |-> term.aggregations,
                                 retrievers |-> Retrievers(None)]]
           /\ UNCHANGED backend

\* POST /api/search-hybrid where the lexical query raises: the call at
\* line 540 stands outside every try of search_shakespeare_hybrid
LexicalFailure(r) ==
    /\ r.fault = "lexical"
    /\ InternalError(r, HybridCalls(r))

\* the fusion is answered from an attribute of the backend once it is there
FusedCached(r) ==
    /\ search_backend = "ok"
    /\ r.fault \notin {"lexical", "body"}
    /\ LET term     == TermResults(r)
           semantic == SemanticResults(r)
           scores   == FusedScores(term, semantic)
           order    == FusedOrder(scores)
           by_id    == Payloads(term, semantic)
           results  == IF DictHas(backend_attrs, "last_results")
                       THEN DictGet(backend_attrs, "last_results", None)
                       ELSE HybridResults(term, semantic, order, by_id,
                                          r.from_, r.size)
       IN  /\ req' = r
           /\ calls' = HybridCalls(r)
           /\ term_results' = term
           /\ semantic_results' = semantic
           /\ rrf_scores' = scores
           /\ sorted_line_ids' = order
           /\ hits_by_id' = by_id
           /\ resp' = [status |-> 200, body |-> results]
           /\ backend_attrs' = DictSet(backend_attrs, "last_results", results)
           /\ UNCHANGED search_backend

\* POST /api/search-hybrid where search_shakespeare_hybrid returns
Fused(r) ==
    /\ search_backend = "ok"
    /\ r.fault \notin {"lexical", "body"}
    /\ LET term     == TermResults(r)
           semantic == SemanticResults(r)
           scores   == FusedScores(term, semantic)
           order    == FusedOrder(scores)
           by_id    == Payloads(term, semantic)
       IN  /\ req' = r
           /\ calls' = HybridCalls(r)
           /\ term_results' = term
           /\ semantic_results' = semantic
           /\ rrf_scores' = scores
           /\ sorted_line_ids' = order
           /\ hits_by_id' = by_id
           /\ resp' = [status |-> 200,
                       body |-> HybridResults(term, semantic, order, by_id,
                                              r.from_, r.size)]
           /\ UNCHANGED backend

\* a fusion without any hit raises
search_hybridEmptyRaises(r) ==
    \/ Unavailable("hybrid")
    \/ MalformedBody(r)
    \/ LexicalFailure(r)
    \/ (/\ lexDocs = <<>>
        /\ SemanticResults(r) = None
        /\ r.fault \notin {"lexical", "body"}
        /\ InternalError(r, HybridCalls(r)))
    \/ (~(lexDocs = <<>> /\ SemanticResults(r) = None) /\ Fused(r))

\* the semantic retrieval stands outside a try as well
search_hybridUncaught(r) ==
    \/ Unavailable("hybrid")
    \/ (r.fault # "none" /\ InternalError(r, HybridCalls(r)))
    \/ (r.fault = "none" /\ Fused(r))

\* POST /api/search-hybrid
search_hybrid(r) ==
    \/ Unavailable("hybrid")
    \/ MalformedBody(r)
    \/ LexicalFailure(r)
    \/ Fused(r)

\* POST /api/search: one lexical query with the paging of the request
search(r) ==
    LET issued == <<SearchCall("shakespeare", r.selected_plays, r.from_, r.size)>>
    IN  \/ Unavailable("search")
        \/ MalformedBody(r)
        \/ (r.fault = "engine" /\ InternalError(r, issued))
        \/ (/\ r.fault = "none"
            /\ Served(r, issued, search_shakespeare(r.selected_plays, r.from_, r.size)))

\* POST /api/search-semantic-sparse: the query raises when it fails or when
\* the index "shakespeare-semantic" does not exist
search_semantic_sparse(r) ==
    LET issued == <<SearchCall("shakespeare-semantic", r.selected_plays, r.from_, r.size)>>
    IN  \/ Unavailable("semantic-sparse")
        \/ MalformedBody(r)
        \/ ((r.fault = "engine" \/ (r.fault = "none" /\ ~semExists))
            /\ InternalError(r, issued))
        \/ (/\ r.fault = "none"
            /\ semExists
            /\ Served(r, issued,
                      search_shakespeare_semantic_sparse(r.selected_plays, r.from_, r.size)))

\* POST /api/search-semantic-dense
search_semantic_dense(r) ==
    LET issued == <<SearchCall("shakespeare-semantic", r.selected_plays, r.from_, r.size)>>
    IN  \/ Unavailable("semantic-dense")
        \/ MalformedBody(r)
        \/ ((r.fault = "engine" \/ (r.fault = "none" /\ ~semExists))
            /\ InternalError(r, issued))
        \/ (/\ r.fault = "none"
            /\ semExists
            /\ Served(r, issued,
                      search_shakespeare_semantic_dense(r.selected_plays, r.from_, r.size)))

\* hit["_source"] of the document with this line_id
Source(line_id) == [line_id |-> line_id, play_name |-> play_name(line_id)]

\* the _source of the first hit, None without a hit; except Exception: return None
get_document_by_line_id(line_id, fault) ==
    IF fault = "engine" THEN None
    ELSE IF line_id \in Corpus THEN Source(line_id)
    ELSE None

DocFaults == {"none", "engine", "render"}

\* GET /document/<line_id>
document_detail(line_id, fault) ==
    \/ Unavailable("document")
    \/ /\ search_backend = "ok"
       /\ LET document == get_document_by_line_id(line_id, fault)
          IN  /\ req' = [kind |-> "document", line_id |-> line_id, fault |-> fault]
              /\ calls' = <<LookupCall(line_id)>>
              /\ NoLocals
              /\ resp' = IF document = None
                         THEN [status |-> 404, body |-> [error |-> "Document not found"]]
                         ELSE IF fault = "render"
                         THEN [status |-> 500, body |-> [error |-> "render failed"]]
                         ELSE [status |-> 200, body |-> [document |-> document]]
              /\ UNCHANGED backend

Request(query, from_, size, fault, client) ==
    [kind |-> "hybrid", query |-> query, selected_plays |-> {}, from_ |-> from_,
     size |-> size, fault |-> fault, client |-> client]

\* data.get('from', 0), data.get('size', 20): a body without paging fields
DefaultRequests ==
    {Request(query, 0, default_size, fault, "fresh") : query \in Queries, fault \in Faults}

\* a body with paging fields, the engine answering every call
PagedRequests ==
    {Request("q", from_, size, "none", "fresh") : from_ \in FromSet, size \in SizeSet}

\* a body with a query and selected_plays and without paging fields
SearchRequests(kind, faults) ==
    {[kind |-> kind, query |-> "q", selected_plays |-> selected_plays, from_ |-> 0,
      size |-> default_size, fault |-> fault, client |-> "fresh"]
     : selected_plays \in SUBSET Plays, fault \in faults}

\* line_ids asked for: those of the documents and one no document has
Lines == Corpus \cup {0}

\* a client sends a request of its own choice
SearchHybrid ==
    /\ search_backend # "unset"
    /\ resp = NoResp
    /\ kept = NoKept
    /\ \E r \in DefaultRequests \cup PagedRequests : search_hybrid(r)
    /\ UNCHANGED <<engine, kept, offline>>

\* a client that kept a non-empty page asks for the page behind it
NextPage ==
    /\ search_backend = "ok"
    /\ resp = NoResp
    /\ kept # NoKept
    /\ kept.hits # <<>>
    /\ search_hybrid(Request(kept.query, kept.from_ + kept.size, kept.size, "none", "next"))
    /\ UNCHANGED <<engine, kept, offline>>

\* a client that kept a first page sends the same request again
Repeat ==
    /\ search_backend = "ok"
    /\ resp = NoResp
    /\ kept # NoKept
    /\ kept.from_ = 0
    /\ \E fault \in Faults :
          search_hybrid(Request(kept.query, kept.from_, kept.size, fault, "again"))
    /\ UNCHANGED <<engine, kept, offline>>

\* a client searches within selected plays
SearchHybridFiltered ==
    /\ search_backend # "unset"
    /\ resp = NoResp
    /\ \E r \in SearchRequests("hybrid", Faults \cup {"body"}) : search_hybrid(r)
    /\ UNCHANGED <<engine, kept, offline>>

Search ==
    /\ search_backend # "unset"
    /\ resp = NoResp
    /\ \E r \in SearchRequests("search", {"none", "body", "engine"}) : search(r)
    /\ UNCHANGED <<engine, kept, offline>>

SearchSemanticSparse ==
    /\ search_backend # "unset"
    /\ resp = NoResp
    /\ \E r \in SearchRequests("semantic-sparse", {"none", "body", "engine"}) :
          search_semantic_sparse(r)
    /\ UNCHANGED <<engine, kept, offline>>

SearchSemanticDense ==
    /\ search_backend # "unset"
    /\ resp = NoResp
    /\ \E r \in SearchRequests("semantic-dense", {"none", "body", "engine"}) :
          search_semantic_dense(r)
    /\ UNCHANGED <<engine, kept, offline>>

DocumentDetail ==
    /\ search_backend # "unset"
    /\ resp = NoResp
    /\ \E line_id \in Lines, fault \in DocFaults : document_detail(line_id, fault)
    /\ UNCHANGED <<engine, kept, offline>>

LineIds(hits) == [n \in 1..Len(hits) |-> hits[n].line_id]

\* what a client keeps of a page: the request, the lists the page was fused
\* from, the page, the whole response body, the pages since offset 0, and
\* whether a repetition of the request has failed since
KeptPage(acc) ==
    [query |-> req.query, from_ |-> req.from_, size |-> req.size,
     lexical |-> LineIds(term_results.hits),
     semantic |-> IF semantic_results # None THEN LineIds(semantic_results.hits) ELSE <<>>,
     semantic_used |-> semantic_results # None,
     hits |-> resp.body.hits,
     body |-> resp.body,
     acc |-> acc \o resp.body.hits,
     failed |-> FALSE]

\* return jsonify(...): the response reaches the client, the request's data is gone
Discard ==
    /\ resp # NoResp
    /\ kept' = NoKept

\* the client keeps the first page of a paged search
KeepFirst ==
    /\ resp.status = 200
    /\ req \in PagedRequests
    /\ req.from_ = 0
    /\ req.size > 0
    /\ kept' = KeptPage(<<>>)

\* the client appends the next page to the pages it kept
KeepNext ==
    /\ resp.status = 200
    /\ req.kind = "hybrid"
    /\ req.client = "next"
    /\ kept' = KeptPage(kept.acc)

\* the client compares the repeated page and goes on with the pages it kept
KeepAgain ==
    /\ resp # NoResp
    /\ req.kind = "hybrid"
    /\ search_backend = "ok"
    /\ req.client = "again"
    /\ kept' = [kept EXCEPT !.failed = @ \/ resp.status = 500]

Deliver ==
    /\ Discard \/ KeepFirst \/ KeepNext \/ KeepAgain
    /\ resp' = NoResp
    /\ req' = NoReq
    /\ calls' = <<>>
    /\ NoLocals
    /\ UNCHANGED <<backend, engine, offline>>

\* the duplicate-free ranked lists of at most n line_ids
RankedLists(n) ==
    UNION {{s \in [1..m -> Corpus] : \A i, j \in 1..m : s[i] = s[j] => i = j}
           : m \in 0..n}

Init ==
    /\ search_backend = "unset"
    /\ backend_attrs = <<>>
    /\ lexDocs \in RankedLists(MaxLen)
    /\ semExists \in BOOLEAN
    /\ semDocs \in (IF semExists THEN RankedLists(MaxSemLen) ELSE {<<>>})
    /\ req = NoReq
    /\ calls = <<>>
    /\ term_results = None
    /\ semantic_results = None
    /\ rrf_scores = <<>>
    /\ sorted_line_ids = <<>>
    /\ hits_by_id = <<>>
    /\ resp = NoResp
    /\ kept = NoKept
    /\ script = NoScript
    /\ cluster = NoCluster

Next == Startup \/ SearchHybrid \/ NextPage \/ Repeat \/ Deliver

\* the hybrid search with its paging, its repetition and its degradation
Spec == Init /\ [][Next]_vars

NextApp ==
    \/ Startup
    \/ Search
    \/ SearchSemanticSparse
    \/ SearchSemanticDense
    \/ SearchHybridFiltered
    \/ DocumentDetail
    \/ Deliver

\* the five endpoints of app.py, with and without a backend
SpecApp == Init /\ [][NextApp]_vars

\* a search method called with (query, selected_plays, from_, size) builds its
\* body and sends it
Query(method) ==
    /\ search_backend = "ok"
    /\ \E query \in Queries, selected_plays \in SUBSET Plays,
          from_ \in FromSet, size \in SizeSet :
          /\ req' = [kind |-> method, query |-> query, selected_plays |-> selected_plays,
                     from_ |-> from_, size |-> size]
          /\ calls' = <<[api |-> "search", index |-> IndexOf(method),
                         body |-> search_body(method, query, selected_plays, from_, size)]>>
    /\ UNCHANGED <<backend, engine, locals, resp, kept, offline>>

QueryLexical == Query("search_shakespeare")
QuerySparse == Query("search_shakespeare_semantic_sparse")
QueryDense == Query("search_shakespeare_semantic_dense")

\* a backend over an engine whose content does not matter
InitBuilders ==
    /\ search_backend = "ok"
    /\ backend_attrs = <<<<"es", "Elasticsearch">>>>
    /\ lexDocs = <<>>
    /\ semExists = TRUE
    /\ semDocs = <<>>
    /\ req = NoReq
    /\ calls = <<>>
    /\ term_results = None
    /\ semantic_results = None
    /\ rrf_scores = <<>>
    /\ sorted_line_ids = <<>>
    /\ hits_by_id = <<>>
    /\ resp = NoResp
    /\ kept = NoKept
    /\ script = NoScript
    /\ cluster = NoCluster

NextBuilders == QueryLexical \/ QuerySparse \/ QueryDense

\* the query builders of the three single-mode search methods
SpecBuilders == InitBuilders /\ [][NextBuilders]_vars

\* line_ids of hits when several hits may carry the same one: 0 is what
\* source.get("line_id", 0) gives a hit whose source has no line_id
DupIds == {0, 1, 2}

\* the ranked lists of at most n line_ids, repetitions allowed
ListsWithRepeats(n) == UNION {[1..m -> DupIds] : m \in 0..n}

InitDup ==
    /\ search_backend = "unset"
    /\ backend_attrs = <<>>
    /\ lexDocs \in ListsWithRepeats(MaxLen)
    /\ semExists \in BOOLEAN
    /\ semDocs \in (IF semExists THEN ListsWithRepeats(MaxSemLen) ELSE {<<>>})
    /\ req = NoReq
    /\ calls = <<>>
    /\ term_results = None
    /\ semantic_results = None
    /\ rrf_scores = <<>>
    /\ sorted_line_ids = <<>>
    /\ hits_by_id = <<>>
    /\ resp = NoResp
    /\ kept = NoKept
    /\ script = NoScript
    /\ cluster = NoCluster

NextDup == Startup \/ SearchHybrid \/ Deliver

\* the hybrid search over an engine whose hit lists repeat line_ids
SpecDup == InitDup /\ [][NextDup]_vars

(***************************************************************************)
(* ingest_shakespeare.py                                                   *)
(***************************************************************************)
\* the search service is not running and has left nothing behind
ServiceDown ==
    /\ search_backend = "unset"
    /\ backend_attrs = <<>>
    /\ lexDocs = <<>>
    /\ semDocs = <<>>
    /\ req = NoReq
    /\ calls = <<>>
    /\ term_results = None
    /\ semantic_results = None
    /\ rrf_scores = <<>>
    /\ sorted_line_ids = <<>>
    /\ hits_by_id = <<>>
    /\ resp = NoResp
    /\ kept = NoKept

\* the service and its client take no step while a script runs
ServiceIdle == UNCHANGED <<backend, lexDocs, semDocs, req, locals, resp, kept>>

\* a line of the bulk file is the text of an index instruction with its _id
\* or the text of a document with its content
Values == {1, 2}
IndexLine(id) == <<"index", id>>
DocLine(content) == <<"doc", content>>

\* json.loads(line)
json_loads(line) ==
    IF line[1] = "index" THEN [index |-> [_id |-> line[2]]]
    ELSE [text_entry |-> line[2]]

\* the bulk files of at most n lines: instruction and document lines in turn
BulkFiles(n) ==
    UNION {{f \in [1..m -> {IndexLine(v) : v \in Values} \cup {DocLine(v) : v \in Values}] :
              \A j \in 1..m : f[j][1] = (IF j % 2 = 1 THEN "index" ELSE "doc")}
           : m \in 0..n}

\* the document takes its _source from the instruction line
docFromInstruction(lines, i) ==
    [_index |-> "shakespeare",
     _id |-> json_loads(lines[i + 1]).index._id,
     _source |-> json_loads(lines[i + 1])]

\* doc = {'_index': 'shakespeare', '_id': doc_id, '_source': doc_line}
doc(lines, i) ==
    [_index |-> "shakespeare",
     _id |-> json_loads(lines[i + 1]).index._id,
     _source |-> json_loads(lines[i + 2])]

\* one turn of for i in range(0, len(lines), 2), or its end
load_shakespeare_data ==
    /\ script.name = "load_shakespeare_data"
    /\ script.pc = "loop"
    /\ IF script.i < Len(script.lines)
       THEN script' = [script EXCEPT
                          !.i = @ + 2,
                          !.yielded = IF script.i + 1 < Len(script.lines)
                                      THEN Append(@, doc(script.lines, script.i))
                                      ELSE @]
       ELSE script' = [script EXCEPT !.pc = "exhausted"]
    /\ ServiceIdle
    /\ UNCHANGED <<calls, semExists, cluster>>

InitLoader ==
    /\ ServiceDown
    /\ semExists = FALSE
    /\ cluster = NoCluster
    /\ \E lines \in BulkFiles(MaxLines) :
          script = [name |-> "load_shakespeare_data", pc |-> "loop", lines |-> lines,
                    i |-> 0, yielded |-> <<>>]

NextLoader == load_shakespeare_data

\* the generator of the bulk documents over every bulk file
SpecLoader == InitLoader /\ [][NextLoader]_vars

(***************************************************************************)
(* ingest_shakespeare_elser.py: deploy_elser_model                         *)
(***************************************************************************)
\* a call of a script to the engine
Op(api, target) == [api |-> api, target |-> target]

Issued(api) == \E n \in 1..Len(calls) : calls[n].api = api

\* what es.ml.get_trained_models() can give: the model listed, not listed, an error
Listings == {"listed", "absent", "error"}
\* what a poll of the deployment stats can give: 'started', 'starting', another
\* state, no stats, an error
Observations == {"started", "starting", "other", "empty", "error"}

\* models = es.ml.get_trained_models(); return if the model is listed; an
\* error is printed and the function goes on
ListModels ==
    /\ script.name = "deploy_elser_model"
    /\ script.pc = "list"
    /\ calls' = Append(calls, Op("ml.get_trained_models", ".elser_model_2"))
    /\ script' = [script EXCEPT
                     !.pc = IF cluster.listing = "listed" THEN "returned" ELSE "start"]
    /\ ServiceIdle
    /\ UNCHANGED <<semExists, cluster>>

\* es.ml.start_trained_model_deployment(...); start_time = time.time()
StartDeployment ==
    /\ script.name = "deploy_elser_model"
    /\ script.pc = "start"
    /\ calls' = Append(calls, Op("ml.start_trained_model_deployment", ".elser_model_2"))
    /\ script' = [script EXCEPT !.pc = IF cluster.start_ok THEN "wait" ELSE "raised"]
    /\ ServiceIdle
    /\ UNCHANGED <<semExists, cluster>>

\* one turn of while time.time() - start_time < max_wait_time: return on
\* 'started', else time.sleep(10)
PollDeployment ==
    /\ script.name = "deploy_elser_model"
    /\ script.pc = "wait"
    /\ script.elapsed < max_wait_time
    /\ \E state \in Observations :
          script' = [script EXCEPT
                        !.observed = state,
                        !.pc = IF state = "started" THEN "returned" ELSE "wait",
                        !.elapsed = IF state = "started" THEN @ ELSE @ + sleep_seconds]
    /\ calls' = Append(calls, Op("ml.get_trained_model_deployment_stats",
                                 ".elser_model_2"))
    /\ ServiceIdle
    /\ UNCHANGED <<semExists, cluster>>

\* the function returns when the wait is over
TimeoutReturns ==
    /\ script.name = "deploy_elser_model"
    /\ script.pc = "wait"
    /\ script.elapsed >= max_wait_time
    /\ script' = [script EXCEPT !.pc = "returned"]
    /\ ServiceIdle
    /\ UNCHANGED <<calls, semExists, cluster>>

\* raise TimeoutError(...), raised again by the outer except
Timeout ==
    /\ script.name = "deploy_elser_model"
    /\ script.pc = "wait"
    /\ script.elapsed >= max_wait_time
    /\ script' = [script EXCEPT !.pc = "raised"]
    /\ ServiceIdle
    /\ UNCHANGED <<calls, semExists, cluster>>

InitDeploy ==
    /\ ServiceDown
    /\ semExists = FALSE
    /\ \E listing \in Listings, start_ok \in BOOLEAN :
          cluster = [listing |-> listing, start_ok |-> start_ok]
    /\ script = [name |-> "deploy_elser_model", pc |-> "list", elapsed |-> 0,
                 observed |-> "none"]

NextDeploy == ListModels \/ StartDeployment \/ PollDeployment \/ Timeout

\* deploy_elser_model against every behaviour of the model deployment
SpecDeploy == InitDeploy /\ [][NextDeploy]_vars

(***************************************************************************)
(* ingest_shakespeare_elser.py, ingest_shakespeare_semantic.py,            *)
(* ingest_shakespeare_dual_semantic.py: main and the functions it calls    *)
(***************************************************************************)
Scripts == {"ingest_shakespeare_elser", "ingest_shakespeare_semantic",
            "ingest_shakespeare_dual_semantic"}

Semantic_index == "shakespeare-semantic"

\* the steps of main in the order of the code; "delete" is left out when the
\* index does not exist
Steps(name) ==
    CASE name = "ingest_shakespeare_elser" ->
           <<"credentials", "ping", "source", "deploy", "endpoint", "pipeline",
             "exists", "delete", "create", "reindex", "poll", "refresh", "stats",
             "done">>
      [] name = "ingest_shakespeare_semantic" ->
           <<"credentials", "ping", "source", "probe",
             "exists", "delete", "create", "reindex", "poll", "refresh", "stats",
             "verify", "done">>
      [] name = "ingest_shakespeare_dual_semantic" ->
           <<"credentials", "ping", "source", "probe",
             "exists", "delete", "create", "pipeline", "reindex", "poll",
             "refresh", "stats", "verify", "done">>

\* the step that follows a step of the running script
After(step) ==
    LET steps == Steps(script.name)
        n == CHOOSE n \in 1..Len(steps) : steps[n] = step
    IN  steps[n + 1]

\* the name of the ingest pipeline of a script
Pipeline(name) ==
    IF name = "ingest_shakespeare_elser" THEN "elser-pipeline"
    ELSE "dual-semantic-pipeline"

\* the engine calls that can raise; "none": no call raises
Failures == {"none", "source", "deploy", "endpoint", "pipeline", "exists",
             "delete", "create", "reindex", "poll", "refresh", "stats"}

Running(step) == script.name \in Scripts /\ script.pc = step

\* the position after an engine call of the step: the exception leaves main
Went(step, next) ==
    script' = [script EXCEPT !.pc = IF cluster.fails = step THEN "raised" ELSE next]

\* if not cloud_id or not api_key: raise ValueError
Credentials ==
    /\ Running("credentials")
    /\ script' = [script EXCEPT
                     !.pc = IF cluster.credentials THEN After("credentials")
                            ELSE "raised"]
    /\ ServiceIdle
    /\ UNCHANGED <<calls, semExists, cluster>>

\* if not es.ping(): raise ConnectionError
Ping ==
    /\ Running("ping")
    /\ calls' = Append(calls, Op("ping", "cluster"))
    /\ script' = [script EXCEPT
                     !.pc = IF cluster.ping THEN After("ping") ELSE "raised"]
    /\ ServiceIdle
    /\ UNCHANGED <<semExists, cluster>>

\* if not es.indices.exists(index="shakespeare"): raise ValueError
SourceIndex ==
    /\ Running("source")
    /\ calls' = Append(calls, Op("indices.exists", "shakespeare"))
    /\ Went("source", IF cluster.source THEN After("source") ELSE "raised")
    /\ ServiceIdle
    /\ UNCHANGED <<semExists, cluster>>

\* the probes of the inference endpoints: an error is a warning only
InferenceProbe ==
    /\ Running("probe")
    /\ calls' = Append(calls, Op("perform_request", "_inference"))
    /\ script' = [script EXCEPT !.pc = After("probe")]
    /\ ServiceIdle
    /\ UNCHANGED <<semExists, cluster>>

\* deploy_elser_model(es) as main sees it: it returns or it raises
DeployModel ==
    /\ Running("deploy")
    /\ calls' = Append(calls, Op("deploy_elser_model", ".elser_model_2"))
    /\ Went("deploy", After("deploy"))
    /\ ServiceIdle
    /\ UNCHANGED <<semExists, cluster>>

\* the endpoint is deleted (errors ignored) and put; an error is raised again
create_elser_inference_endpoint ==
    /\ Running("endpoint")
    /\ calls' = calls \o <<Op("delete", "_inference/elser-endpoint"),
                           Op("put", "_inference/elser-endpoint")>>
    /\ Went("endpoint", After("endpoint"))
    /\ ServiceIdle
    /\ UNCHANGED <<semExists, cluster>>

\* the pipeline is deleted (errors ignored) and put
create_ingest_pipeline ==
    /\ Running("pipeline")
    /\ calls' = calls \o <<Op("ingest.delete_pipeline", Pipeline(script.name)),
                           Op("ingest.put_pipeline", Pipeline(script.name))>>
    /\ Went("pipeline", After("pipeline"))
    /\ cluster' = [cluster EXCEPT !.pipeline = (cluster.fails # "pipeline")]
    /\ ServiceIdle
    /\ UNCHANGED semExists

\* the index is created over the one that is there
IndexExistsKeeps ==
    /\ Running("exists")
    /\ calls' = Append(calls, Op("indices.exists", Semantic_index))
    /\ Went("exists", "create")
    /\ ServiceIdle
    /\ UNCHANGED <<semExists, cluster>>

\* if es.indices.exists(index=index_name):
IndexExists ==
    /\ Running("exists")
    /\ calls' = Append(calls, Op("indices.exists", Semantic_index))
    /\ Went("exists", IF semExists THEN "delete" ELSE "create")
    /\ ServiceIdle
    /\ UNCHANGED <<semExists, cluster>>

\* es.indices.delete(index=index_name)
IndexDelete ==
    /\ Running("delete")
    /\ calls' = Append(calls, Op("indices.delete", Semantic_index))
    /\ Went("delete", After("delete"))
    /\ semExists' = IF cluster.fails = "delete" THEN semExists ELSE FALSE
    /\ ServiceIdle
    /\ UNCHANGED cluster

\* es.indices.create(index=index_name, body=mapping)
IndexCreate ==
    /\ Running("create")
    /\ calls' = Append(calls, Op("indices.create", Semantic_index))
    /\ Went("create", After("create"))
    /\ semExists' = IF cluster.fails = "create" THEN semExists ELSE TRUE
    /\ ServiceIdle
    /\ UNCHANGED cluster

\* response = es.reindex(body=reindex_body, wait_for_completion=False)
StartReindex ==
    /\ Running("reindex")
    /\ calls' = Append(calls, Op("reindex", Semantic_index))
    /\ Went("reindex", After("reindex"))
    /\ cluster' = [cluster EXCEPT
                      !.task = IF cluster.fails = "reindex" THEN @ ELSE "running"]
    /\ ServiceIdle
    /\ UNCHANGED semExists

\* the loop gives up after MaxPolls polls
PollTaskTimesOut ==
    /\ Running("poll")
    /\ script' = [script EXCEPT
                     !.pc = IF cluster.fails = "poll" THEN "raised"
                            ELSE IF cluster.task = "completed"
                                    \/ script.polls >= MaxPolls
                            THEN After("poll")
                            ELSE "poll",
                     !.polls = IF @ < MaxPolls THEN @ + 1 ELSE @]
    /\ ServiceIdle
    /\ UNCHANGED <<calls, semExists, cluster>>

\* one turn of while True: task_status = es.tasks.get(task_id); break when
\* task_status['completed'], else time.sleep(10).  The polls are counted in
\* script.polls, up to MaxPolls.
PollTask ==
    /\ Running("poll")
    /\ script' = [script EXCEPT
                     !.pc = IF cluster.fails = "poll" THEN "raised"
                            ELSE IF cluster.task = "completed" THEN After("poll")
                            ELSE "poll",
                     !.polls = IF @ < MaxPolls THEN @ + 1 ELSE @]
    /\ ServiceIdle
    /\ UNCHANGED <<calls, semExists, cluster>>

\* es.indices.refresh(index="shakespeare-semantic")
RefreshIndex ==
    /\ Running("refresh")
    /\ calls' = Append(calls, Op("indices.refresh", Semantic_index))
    /\ Went("refresh", After("refresh"))
    /\ ServiceIdle
    /\ UNCHANGED <<semExists, cluster>>

\* stats = es.indices.stats(index="shakespeare-semantic")
IndexStats ==
    /\ Running("stats")
    /\ calls' = Append(calls, Op("indices.stats", Semantic_index))
    /\ Went("stats", After("stats"))
    /\ ServiceIdle
    /\ UNCHANGED <<semExists, cluster>>

\* the test searches: an error is printed only
verify_semantic_search ==
    /\ Running("verify")
    /\ calls' = Append(calls, Op("search", Semantic_index))
    /\ script' = [script EXCEPT !.pc = After("verify")]
    /\ ServiceIdle
    /\ UNCHANGED <<semExists, cluster>>

\* the engine finishes the reindex task
TaskCompletes ==
    /\ script.name \in Scripts
    /\ cluster.task = "running"
    /\ cluster' = [cluster EXCEPT !.task = "completed"]
    /\ ServiceIdle
    /\ UNCHANGED <<calls, semExists, script>>

InitIngest ==
    /\ ServiceDown
    /\ semExists \in BOOLEAN
    /\ \E credentials \in BOOLEAN, ping \in BOOLEAN, source \in BOOLEAN,
          fails \in Failures :
          cluster = [credentials |-> credentials, ping |-> ping,
                     source |-> source, fails |-> fails, pipeline |-> FALSE,
                     task |-> "none"]
    /\ \E name \in Scripts :
          script = [name |-> name, pc |-> "credentials", polls |-> 0]

\* the steps of the script
Main ==
    \/ Credentials
    \/ Ping
    \/ SourceIndex
    \/ InferenceProbe
    \/ DeployModel
    \/ create_elser_inference_endpoint
    \/ create_ingest_pipeline
    \/ IndexExists
    \/ IndexDelete
    \/ IndexCreate
    \/ StartReindex
    \/ PollTask
    \/ RefreshIndex
    \/ IndexStats
    \/ verify_semantic_search

NextIngest == Main \/ TaskCompletes

\* the three semantic ingest scripts against every cluster
SpecIngest == InitIngest /\ [][NextIngest]_vars

\* the script is a sequential program: it takes its next step
SpecIngestFair == SpecIngest /\ WF_vars(Main)

(***************************************************************************)
(* Properties                                                              *)
(***************************************************************************)
\* a hybrid request was fused and its response is in flight
Answered == resp # NoResp /\ resp.status = 200

\* the lexical and the semantic hit list the fusion received, as line_ids
\* (the semantic list is empty when the semantic source was not used)
Lexical == LineIds(term_results.hits)
Semantic == IF semantic_results # None THEN LineIds(semantic_results.hits) ELSE <<>>

Ids(list) == {list[n] : n \in 1..Len(list)}
DuplicateFree(list) == \A i, j \in 1..Len(list) : list[i] = list[j] => i = j

\* 1-based position of id in list, 0 when absent
Rank(list, id) ==
    IF id \in Ids(list) THEN CHOOSE n \in 1..Len(list) : list[n] = id ELSE 0

\* 1 / (rank + k) for a listed id and 0 for an absent one, in units of 1 / ScoreUnit
Reciprocal(list, id) ==
    IF Rank(list, id) = 0 THEN 0 ELSE ScoreUnit \div (Rank(list, id) + k)

Score(id) == DictGet(rrf_scores, id, 0)

\* C1: every line_id of the fused ranking of a hybrid search over
\* duplicate-free lists has fused score exactly
\* (1/(rank_in_L + k) if in L else 0) + (1/(rank_in_S + k) if in S else 0), k = 60.
C1_FusedScore ==
    (Answered /\ DuplicateFree(Lexical) /\ DuplicateFree(Semantic)) =>
        /\ \A r \in 1..MaxLen : ScoreUnit % (r + k) = 0
        /\ \A id \in Ids(sorted_line_ids) :
              Score(id) = Reciprocal(Lexical, id) + Reciprocal(Semantic, id)

\* a fusion with a line_id in both lists, one only lexical and one only semantic
C1_Witness ==
    /\ Answered
    /\ Ids(Lexical) \cap Ids(Semantic) # {}
    /\ Ids(Lexical) \ Ids(Semantic) # {}
    /\ Ids(Semantic) \ Ids(Lexical) # {}
    /\ Ids(sorted_line_ids) = Ids(Lexical) \cup Ids(Semantic)

\* C2: the fused ranking holds exactly the union of the line_ids of the two
\* hit lists, each line_id once.
C2_UnionOnce ==
    Answered =>
        /\ Ids(sorted_line_ids) = Ids(Lexical) \cup Ids(Semantic)
        /\ DuplicateFree(sorted_line_ids)
        /\ Len(sorted_line_ids) = Cardinality(Ids(Lexical) \cup Ids(Semantic))

\* a fusion of overlapping lists that each hold a line_id of their own
C2_Witness ==
    /\ Answered
    /\ Len(sorted_line_ids) = 4
    /\ Cardinality(Ids(Lexical) \cap Ids(Semantic)) = 1
    /\ Len(Lexical) = 3
    /\ Len(Semantic) = 2

\* L = [id1, id2, id3] and S = [id2, id4] for four distinct line_ids
IsExample ==
    /\ Len(Lexical) = 3
    /\ Len(Semantic) = 2
    /\ DuplicateFree(Lexical)
    /\ Semantic[1] = Lexical[2]
    /\ Semantic[2] \notin Ids(Lexical)

\* C3: the fused ranking is ordered by non-increasing fused score, and
\* L = [id1, id2, id3], S = [id2, id4] fuses to id2, id1, id4, id3.
C3_Descending ==
    Answered =>
        /\ \A i, j \in 1..Len(sorted_line_ids) :
              i < j => Score(sorted_line_ids[i]) >= Score(sorted_line_ids[j])
        /\ IsExample =>
              sorted_line_ids = <<Lexical[2], Lexical[1], Semantic[2], Lexical[3]>>

\* the example of the specification, with line_ids 1..4
C3_Witness ==
    /\ Answered
    /\ IsExample
    /\ Lexical = <<1, 2, 3>>
    /\ Semantic = <<2, 4>>
    /\ sorted_line_ids = <<2, 1, 4, 3>>
    /\ LineIds(resp.body.hits) = <<2, 1, 4, 3>>

Absent == rank_window_size + 1
KeyRank(list, id) == IF Rank(list, id) = 0 THEN Absent ELSE Rank(list, id)

\* a sorts before b by (fusedScore desc, lexicalRank asc, semanticRank asc, id asc)
Before(a, b) ==
    \/ Score(a) > Score(b)
    \/ /\ Score(a) = Score(b)
       /\ \/ KeyRank(Lexical, a) < KeyRank(Lexical, b)
          \/ /\ KeyRank(Lexical, a) = KeyRank(Lexical, b)
             /\ \/ KeyRank(Semantic, a) < KeyRank(Semantic, b)
                \/ /\ KeyRank(Semantic, a) = KeyRank(Semantic, b)
                   /\ a < b

\* C5: for duplicate-free lists the fused order is the sort by the composite
\* key (fusedScore desc, lexicalRank asc, semanticRank asc, identifier asc),
\* an absent rank counting as +infinity.
C5_CompositeKey ==
    (Answered /\ DuplicateFree(Lexical) /\ DuplicateFree(Semantic)) =>
        \A i, j \in 1..Len(sorted_line_ids) :
            i < j => Before(sorted_line_ids[i], sorted_line_ids[j])

\* two line_ids that swap ranks between the lists tie, and the lexical rank
\* puts the larger line_id first
C5_Witness ==
    /\ Answered
    /\ \E i, j \in 1..Len(sorted_line_ids) :
          /\ i < j
          /\ Score(sorted_line_ids[i]) = Score(sorted_line_ids[j])
          /\ sorted_line_ids[i] > sorted_line_ids[j]
          /\ {sorted_line_ids[i], sorted_line_ids[j]} \subseteq Ids(Lexical) \cap Ids(Semantic)

Min(a, b) == IF a < b THEN a ELSE b

\* the semantic source is unavailable to the request being answered
SemanticUnavailable == ~semExists \/ req.fault \in {"exists", "dense"}

\* C6: when the semantic source is unavailable (index missing, existence
\* check or dense query raising) a hybrid search does not fail: it returns the
\* lexical hits in their lexical order, total = number of lexical hits.
C6_Degrades ==
    (/\ resp # NoResp
     /\ search_backend = "ok"
     /\ req.fault # "lexical"
     /\ SemanticUnavailable) =>
        /\ resp.status = 200
        /\ semantic_results = None
        /\ sorted_line_ids = Lexical
        /\ resp.body.total = Len(term_results.hits)
        /\ (req.from_ >= 0 /\ req.size >= 0) =>
              resp.body.hits = SubSeq(term_results.hits, req.from_ + 1,
                                      Min(req.from_ + req.size, Len(term_results.hits)))

\* the dense query raises although the semantic index holds hits, and the
\* three lexical hits come back as they were
C6_Witness ==
    /\ Answered
    /\ req.fault = "dense"
    /\ semExists
    /\ Len(semDocs) = 2
    /\ Len(term_results.hits) = 3
    /\ resp.body.hits = term_results.hits
    /\ resp.body.total = 3

\* C7 as claimed: a failure of either retrieval source, the lexical query
\* included, is absorbed and the request still returns a fused result.
C7_EitherAbsorbed ==
    (/\ resp # NoResp
     /\ search_backend = "ok"
     /\ req.fault \in {"lexical", "dense"}) => resp.status = 200

\* C7 amended: a raising dense-semantic query is absorbed (the semantic list
\* counts as empty and the fused result is built from the lexical list); a
\* raising lexical query is not: the request is answered 500 with an error
\* message only, and the dense-semantic query is never issued.
C7_SemanticAbsorbed ==
    (resp # NoResp /\ search_backend = "ok") =>
        /\ req.fault = "dense" =>
              /\ resp.status = 200
              /\ Semantic = <<>>
              /\ Ids(LineIds(resp.body.hits)) \subseteq Ids(Lexical)
              /\ \A id \in Ids(Lexical) : Score(id) = Reciprocal(Lexical, id)
        /\ req.fault = "lexical" =>
              /\ resp.status = 500
              /\ resp.body = [error |-> "search failed"]
              /\ \A n \in 1..Len(calls) : ~(calls[n].api = "search" /\ calls[n].index = "shakespeare-semantic")

\* the lexical query raises while the semantic index could have answered
C7_Witness ==
    /\ resp # NoResp
    /\ search_backend = "ok"
    /\ req.fault = "lexical"
    /\ resp.status = 500
    /\ semExists
    /\ semDocs # <<>>

\* C8: for fixed engine responses and size > 0 each page is the slice
\* [from_, from_ + size) of the fused order, and the pages for
\* from_ = 0, size, 2*size, ... concatenate to the fused order without gap
\* or duplicate.
C8_Pagination ==
    (Answered /\ req.from_ >= 0 /\ req.size > 0) =>
        /\ LineIds(resp.body.hits) =
              SubSeq(sorted_line_ids, req.from_ + 1,
                     Min(req.from_ + req.size, Len(sorted_line_ids)))
        /\ (/\ req.client = "next"
            /\ kept.lexical = Lexical
            /\ kept.semantic = Semantic) =>
              /\ LineIds(kept.acc \o resp.body.hits) =
                    SubSeq(sorted_line_ids, 1,
                           Min(req.from_ + req.size, Len(sorted_line_ids)))
              /\ DuplicateFree(LineIds(kept.acc \o resp.body.hits))

\* the fourth page of size 1 completes a fused order of four line_ids
C8_Witness ==
    /\ Answered
    /\ req.client = "next"
    /\ req.size = 1
    /\ req.from_ = 3
    /\ Len(sorted_line_ids) = 4
    /\ Len(kept.acc) = 3
    /\ LineIds(kept.acc \o resp.body.hits) = sorted_line_ids

\* C9 as claimed: a hybrid search with size <= 0 or from < 0 fails with a
\* request error and returns no hits.
C9_InvalidConfig ==
    (/\ resp # NoResp
     /\ search_backend = "ok"
     /\ (req.size <= 0 \/ req.from_ < 0)) => resp.status >= 400

\* C10: every returned hit is, as a whole object, the lexical hit of its
\* line_id when the lexical list has one, and else the semantic hit.
C10_Payload ==
    Answered =>
        \A n \in 1..Len(resp.body.hits) :
            LET hit == resp.body.hits[n]
            IN  IF hit.line_id \in Ids(Lexical)
                THEN hit = term_results.hits[Rank(Lexical, hit.line_id)]
                ELSE /\ hit.line_id \in Ids(Semantic)
                     /\ hit = semantic_results.hits[Rank(Semantic, hit.line_id)]

\* a page with a hit that both lists hold and a hit only the semantic list holds
C10_Witness ==
    /\ Answered
    /\ \E n \in 1..Len(resp.body.hits) :
          /\ resp.body.hits[n].line_id \in Ids(Lexical) \cap Ids(Semantic)
          /\ resp.body.hits[n].text_entry[1] = "shakespeare"
    /\ \E n \in 1..Len(resp.body.hits) :
          /\ resp.body.hits[n].line_id \notin Ids(Lexical)
          /\ resp.body.hits[n].text_entry[1] = "shakespeare-semantic"

\* C11: when both hit lists are empty a hybrid search returns hits = [] and
\* total = 0 and no error, for every from_ and size.
C11_EmptyResult ==
    (/\ resp # NoResp
     /\ search_backend = "ok"
     /\ req.fault # "lexical"
     /\ lexDocs = <<>>
     /\ (semDocs = <<>> \/ SemanticUnavailable)) =>
        /\ resp.status = 200
        /\ resp.body.hits = <<>>
        /\ resp.body.total = 0

\* both lists are empty, with the semantic index missing and with it present,
\* and the paging is out of range
C11_Witness ==
    /\ Answered
    /\ lexDocs = <<>>
    /\ semExists
    /\ semantic_results # None
    /\ semantic_results.hits = <<>>
    /\ req.from_ = -1
    /\ req.size = -1
    /\ resp.body.total = 0

\* C18: the total of a hybrid response is the number of distinct line_ids in
\* the union of the two retrieved lists (at most 200), the same for every from_
\* and size over the same engine responses, and not the engine's match count.
C18_Total ==
    Answered =>
        /\ resp.body.total = Cardinality(Ids(Lexical) \cup Ids(Semantic))
        /\ resp.body.total <= 2 * rank_window_size
        /\ (kept # NoKept /\ kept.lexical = Lexical /\ kept.semantic = Semantic) =>
              resp.body.total = kept.body.total

\* a later page of the same lists reports the total of the first page, which
\* is neither engine's match count
C18_Witness ==
    /\ Answered
    /\ req.client = "next"
    /\ req.from_ > kept.from_
    /\ resp.body.total = kept.body.total
    /\ semantic_results # None
    /\ resp.body.total > term_results.total
    /\ resp.body.total > semantic_results.total

Max(a, b) == IF a > b THEN a ELSE b

\* C19: for from_ >= 0 and size >= 0 a hybrid response has
\* min(size, max(0, total - from_)) hits, the payload lookup drops no id of the
\* page, and from_ >= total gives no hits, the same total and no error.
C19_PageLength ==
    (/\ resp # NoResp
     /\ search_backend = "ok"
     /\ req.fault # "lexical"
     /\ req.from_ >= 0
     /\ req.size >= 0) =>
        /\ resp.status = 200
        /\ Len(resp.body.hits) = Min(req.size, Max(0, resp.body.total - req.from_))
        /\ LineIds(resp.body.hits) =
              PySlice(sorted_line_ids, req.from_, req.from_ + req.size)
        /\ req.from_ >= resp.body.total =>
              /\ resp.body.hits = <<>>
              /\ resp.body.total = Len(sorted_line_ids)
              /\ (kept # NoKept /\ kept.lexical = Lexical /\ kept.semantic = Semantic) =>
                    resp.body.total = kept.body.total

\* a client pages past the end of a fusion that has semantic-only ids
C19_Witness ==
    /\ Answered
    /\ req.client = "next"
    /\ req.from_ >= resp.body.total
    /\ resp.body.total >= 3
    /\ Ids(Semantic) \ Ids(Lexical) # {}
    /\ resp.body.hits = <<>>
    /\ kept.hits # <<>>

\* a ranks strictly better than b in every source list b appears in
Dominates(a, b) ==
    /\ b \in Ids(Lexical) =>
          (a \in Ids(Lexical) /\ Rank(Lexical, a) < Rank(Lexical, b))
    /\ b \in Ids(Semantic) =>
          (a \in Ids(Semantic) /\ Rank(Semantic, a) < Rank(Semantic, b))

\* C20: a line_id that dominates another one has the strictly larger fused
\* score and precedes it in the fused order; a line_id at rank 1 of both lists
\* is first.
C20_Dominance ==
    Answered =>
        /\ \A a, b \in Ids(sorted_line_ids) :
              (a # b /\ Dominates(a, b)) =>
                  /\ Score(a) > Score(b)
                  /\ Rank(sorted_line_ids, a) < Rank(sorted_line_ids, b)
        /\ (Lexical # <<>> /\ Semantic # <<>> /\ Lexical[1] = Semantic[1]) =>
              sorted_line_ids[1] = Lexical[1]

\* one line_id leads both lists and a line_id dominates one with a smaller id
C20_Witness ==
    /\ Answered
    /\ Len(Lexical) >= 2
    /\ Len(Semantic) >= 2
    /\ Lexical[1] = Semantic[1]
    /\ Lexical[2] # Semantic[2]
    /\ Semantic[2] \notin Ids(Lexical)
    /\ sorted_line_ids[1] = Lexical[1]
    /\ \E a, b \in Ids(sorted_line_ids) : a # b /\ a > b /\ Dominates(a, b)

\* what request is enabled when no response is in flight
Serving ==
    /\ ENABLED Search
    /\ ENABLED SearchSemanticSparse
    /\ ENABLED SearchSemanticDense
    /\ ENABLED SearchHybridFiltered
    /\ ENABLED DocumentDetail

\* C12: when the construction of the backend failed at start, every request
\* to the five endpoints is answered 503 without an engine call, the process
\* goes on serving, and the backend is never constructed again.
C12_Unavailable ==
    /\ []((search_backend = "none" /\ resp # NoResp) =>
             (resp.status = 503 /\ calls = <<>>))
    /\ []((search_backend = "none" /\ resp = NoResp) => Serving)
    /\ [][search_backend = "none" => (search_backend' = "none" /\ UNCHANGED backend_attrs)]_vars

\* a document request is turned away without a backend
C12_Witness ==
    /\ search_backend = "none"
    /\ resp # NoResp
    /\ req.kind = "document"
    /\ resp.status = 503
    /\ calls = <<>>

SearchKinds == {"search", "semantic-sparse", "semantic-dense", "hybrid"}

\* an engine call of the request in flight raised, or its body was no dict
Raised ==
    \/ req.fault # "none"
    \/ (req.kind \in {"semantic-sparse", "semantic-dense"} /\ ~semExists)

\* an exception of the request in flight reached the handler of the endpoint:
\* in a hybrid search only the body and the lexical query are outside the
\* try of the backend
Escaped ==
    IF req.kind = "hybrid" THEN req.fault \in {"body", "lexical"} ELSE Raised

\* C13 as stated: with a backend, any exception raised while one of the four
\* search endpoints handles a request is answered 500 with only an error
\* message.
C13_AnyException ==
    (/\ resp # NoResp
     /\ search_backend = "ok"
     /\ req.kind \in SearchKinds
     /\ Raised) =>
        (resp.status = 500 /\ DOMAIN resp.body = {"error"})

\* C13 (amended): with a backend, an exception that leaves the backend call
\* or the reading of the body of one of the four search endpoints is answered
\* 500 with only an error message; an exception of the semantic side of a
\* hybrid search is absorbed in the backend and answered 200; no request
\* changes the backend handle, and a request without failure is answered 200.
C13_InternalError ==
    /\ []((/\ resp # NoResp
           /\ search_backend = "ok"
           /\ req.kind \in SearchKinds) =>
             IF Escaped
             THEN resp.status = 500 /\ DOMAIN resp.body = {"error"}
             ELSE resp.status = 200 /\ "hits" \in DOMAIN resp.body)
    /\ [][search_backend = "ok" => UNCHANGED backend]_vars

\* the sparse endpoint fails on the engine and the backend is still there
C13_Witness ==
    /\ resp # NoResp
    /\ search_backend = "ok"
    /\ req.kind = "semantic-sparse"
    /\ req.fault = "engine"
    /\ calls # <<>>
    /\ resp.status = 500

\* C14: GET /document/<line_id> answers 404 exactly when no document has the
\* line_id, and a failure of the lookup is answered 500, not 404.
C14_NotFound ==
    (/\ resp # NoResp
     /\ search_backend = "ok"
     /\ req.kind = "document") =>
        /\ resp.status = 404 <=> req.line_id \notin Corpus
        /\ req.fault = "engine" => resp.status = 500

\* C15: a hybrid search writes no attribute of the backend object and keeps
\* nothing between calls: a request repeated after any requests, failed ones
\* among them, gets the response it got before from the same engine answers.
C15_Stateless ==
    /\ [][search_backend = "ok" => UNCHANGED backend_attrs]_vars
    /\ [](resp = NoResp =>
             /\ term_results = None
             /\ semantic_results = None
             /\ rrf_scores = <<>>
             /\ sorted_line_ids = <<>>
             /\ hits_by_id = <<>>)
    /\ []((Answered /\ req.client = "again" /\ req.fault = "none") =>
             resp.body = kept.body)

\* the request is repeated with success after a repetition that failed
C15_Witness ==
    /\ Answered
    /\ req.client = "again"
    /\ req.fault = "none"
    /\ kept.failed
    /\ resp.body.hits # <<>>
    /\ resp.body = kept.body
    /\ backend_attrs = <<<<"es", "Elasticsearch">>>>

\* C16: every hybrid search uses k = 60 and retrieves each list from offset 0
\* with limit 100, whatever from_ and size the caller gave, which cut the
\* fused order only.
C16_Window ==
    Answered =>
        /\ \A n \in 1..Len(calls) :
              calls[n].api = "search" => (calls[n].from_ = 0 /\ calls[n].size = 100)
        /\ Lexical = PySlice(lexDocs, 0, 100)
        /\ semantic_results # None => Semantic = PySlice(semDocs, 0, 100)
        /\ \A n \in 1..Len(Lexical) :
              Lexical[n] \notin Ids(Semantic) =>
                  Score(Lexical[n]) = ScoreUnit \div (n + 60)
        /\ Ids(sorted_line_ids) = Ids(Lexical) \cup Ids(Semantic)
        /\ LineIds(resp.body.hits) =
              PySlice(sorted_line_ids, req.from_, req.from_ + req.size)

\* a page of one hit at offset 1 is cut from the fusion of complete lists
C16_Witness ==
    /\ Answered
    /\ req.from_ = 1
    /\ req.size = 1
    /\ Len(lexDocs) = MaxLen
    /\ Lexical = lexDocs
    /\ semDocs # <<>>
    /\ Semantic = semDocs
    /\ Len(calls) = 4
    /\ Len(resp.body.hits) = 1

\* C17: a hybrid search with a non-empty selected_plays passes the filter to
\* both retrievals, and every hit it returns has its play_name in selected_plays.
C17_Filter ==
    (/\ Answered
     /\ req.kind = "hybrid"
     /\ req.selected_plays # {}) =>
        /\ \A n \in 1..Len(calls) :
              calls[n].api = "search" => calls[n].selected_plays = req.selected_plays
        /\ \A n \in 1..Len(resp.body.hits) :
              resp.body.hits[n].play_name \in req.selected_plays

\* one play is selected, both indexes rank lines of the other play, and a hit
\* that only the semantic retrieval found is returned
C17_Witness ==
    /\ Answered
    /\ req.kind = "hybrid"
    /\ req.selected_plays = {"Hamlet"}
    /\ \E n \in 1..Len(lexDocs) : play_name(lexDocs[n]) = "Macbeth"
    /\ \E n \in 1..Len(semDocs) : play_name(semDocs[n]) = "Macbeth"
    /\ semantic_results # None
    /\ \E n \in 1..Len(resp.body.hits) :
          resp.body.hits[n].line_id \notin Ids(Lexical)

\* the positions of calls holding the lexical query, the dense query, an
\* existence check
LexicalCalls ==
    {n \in 1..Len(calls) : calls[n].api = "search" /\ calls[n].index = "shakespeare"}
DenseCalls ==
    {n \in 1..Len(calls) : calls[n].api = "search" /\ calls[n].index = "shakespeare-semantic"}
ExistsCalls == {n \in 1..Len(calls) : calls[n].api = "exists"}

\* a hybrid request reached the backend
Handled == resp # NoResp /\ search_backend = "ok" /\ req.kind = "hybrid"

\* C21 as stated: the lexical query is issued and returns before every
\* existence check and before the dense query; the dense query is issued only
\* after an existence check that returned true; no dense query follows a
\* raising lexical query.
C21_LexicalFirst ==
    Handled =>
        /\ \A l \in LexicalCalls, e \in ExistsCalls \cup DenseCalls : l < e
        /\ DenseCalls # {} => (semExists /\ req.fault \notin {"lexical", "exists"})
        /\ req.fault = "lexical" => DenseCalls = {}

\* C21 (amended): the calls of a hybrid request are issued one after the
\* other; with a non-empty query one existence check precedes the lexical
\* query; the existence check that decides on the dense query and the dense
\* query follow a lexical query that returned; the dense query is issued only
\* when that check returned true; nothing follows a raising lexical query.
C21_Sequential ==
    Handled =>
        /\ Cardinality(LexicalCalls) = 1
        /\ \A l \in LexicalCalls :
              /\ l = (IF req.query # "" THEN 2 ELSE 1)
              /\ \A e \in ExistsCalls : e < l => (e = 1 /\ req.query # "")
              /\ req.fault = "lexical" => Len(calls) = l
              /\ req.fault # "lexical" => (Len(calls) >= l + 1 /\ l + 1 \in ExistsCalls)
              /\ DenseCalls \subseteq {l + 2}
        /\ DenseCalls # {} <=> (semExists /\ req.fault \notin {"lexical", "exists"})

\* a request with a query issues check, lexical query, check, dense query
C21_Witness ==
    /\ Handled
    /\ req.query = "q"
    /\ req.fault = "none"
    /\ Len(calls) = 4
    /\ ExistsCalls = {1, 3}
    /\ LexicalCalls = {2}
    /\ DenseCalls = {4}

\* C22: the aggregations of a hybrid response are those of the lexical search
\* of the request, whether or not the semantic source is available and
\* whatever it contributes.
C22_Aggregations ==
    Answered =>
        /\ resp.body.aggregations = term_results.aggregations
        /\ resp.body.aggregations = Buckets(lexDocs, PlayOrder)
        /\ (kept # NoKept /\ kept.lexical = Lexical) =>
              resp.body.aggregations = kept.body.aggregations

\* the semantic answer has other facet counts than the lexical one, and the
\* request is answered again without the semantic source
C22_Witness ==
    /\ Answered
    /\ req.client = "again"
    /\ req.fault = "dense"
    /\ kept.semantic_used
    /\ semantic_results = None
    /\ Buckets(semDocs, PlayOrder) # Buckets(lexDocs, PlayOrder)
    /\ Len(resp.body.aggregations) = 2
    /\ resp.body.aggregations = kept.body.aggregations

\* C29: the retrievers of a hybrid response list semantic_dense exactly when
\* the dense retrieval of the request succeeded; standard is always listed
\* and no entry is null.
C29_Retrievers ==
    Answered =>
        LET listed == {resp.body.retrievers[n].type : n \in 1..Len(resp.body.retrievers)}
        IN  /\ \A n \in 1..Len(resp.body.retrievers) : resp.body.retrievers[n] # None
            /\ "standard" \in listed
            /\ "semantic_dense" \in listed <=> semantic_results # None
            /\ semantic_results # None <=> ~SemanticUnavailable
            /\ listed \subseteq {"standard", "semantic_dense"}

\* the dense query raised and only the standard retriever is listed
C29_Witness ==
    /\ Answered
    /\ semExists
    /\ req.fault = "dense"
    /\ Len(resp.body.retrievers) = 1
    /\ resp.body.retrievers[1].type = "standard"

\* the must clauses of the body sent that carry the query string, the filter
SentBody == calls[1].body
TextClauses ==
    {n \in 1..Len(SentBody.query.must) : SentBody.query.must[n].clause # "terms"}
TermsClauses ==
    {n \in 1..Len(SentBody.query.must) : SentBody.query.must[n].clause = "terms"}

\* C23: a single-mode query builder sends match_all exactly when the query
\* string and selected_plays are both empty, else a bool query whose must list
\* has one text clause iff the query is non-empty and one play_name terms
\* clause iff selected_plays is non-empty; from_ and size go through unchanged.
C23_Builder ==
    (calls # <<>> /\ req.kind \in Methods) =>
        /\ SentBody.query.kind = "match_all" <=>
              (req.query = "" /\ req.selected_plays = {})
        /\ SentBody.query.kind # "match_all" =>
              /\ SentBody.query.kind = "bool"
              /\ Cardinality(TextClauses) = (IF req.query # "" THEN 1 ELSE 0)
              /\ Cardinality(TermsClauses) = (IF req.selected_plays # {} THEN 1 ELSE 0)
              /\ Len(SentBody.query.must) = Cardinality(TextClauses \cup TermsClauses)
              /\ \A n \in TextClauses : SentBody.query.must[n].query = req.query
              /\ \A n \in TermsClauses :
                    SentBody.query.must[n].play_name = req.selected_plays
        /\ SentBody.from_ = req.from_
        /\ SentBody.size = req.size

\* the dense builder sends a filter without a query string, with the paging
\* of the caller
C23_Witness ==
    /\ calls # <<>>
    /\ req.kind = "search_shakespeare_semantic_dense"
    /\ req.query = ""
    /\ req.selected_plays = {"Hamlet"}
    /\ req.from_ = 1
    /\ req.size = 2
    /\ SentBody.query.kind = "bool"
    /\ Len(SentBody.query.must) = 1
    /\ SentBody.from_ = 1

RECURSIVE Contributions(_, _, _)
\* the sum of 1 / (n + k) over the positions n..Len(list) of list holding id
Contributions(list, id, n) ==
    IF n > Len(list) THEN 0
    ELSE (IF list[n] = id THEN ScoreUnit \div (n + k) ELSE 0)
         + Contributions(list, id, n + 1)

\* the positions of id in list
Occurrences(list, id) == {n \in 1..Len(list) : list[n] = id}
Largest(S) == CHOOSE n \in S : \A m \in S : m <= n
Smallest(S) == CHOOSE n \in S : \A m \in S : n <= m

\* C24: when a retrieved list repeats a line_id, the fused order lists it
\* once, its score is the sum of the contributions of all its occurrences,
\* and its payload is its last lexical occurrence or, without one, its first
\* semantic occurrence.
C24_Repeated ==
    Answered =>
        /\ DuplicateFree(sorted_line_ids)
        /\ Ids(sorted_line_ids) = Ids(Lexical) \cup Ids(Semantic)
        /\ \A id \in Ids(sorted_line_ids) :
              /\ Score(id) = Contributions(Lexical, id, 1) + Contributions(Semantic, id, 1)
              /\ DictGet(hits_by_id, id, None) =
                    IF id \in Ids(Lexical)
                    THEN term_results.hits[Largest(Occurrences(Lexical, id))]
                    ELSE semantic_results.hits[Smallest(Occurrences(Semantic, id))]
        /\ (req.from_ = 0 /\ req.size >= Len(sorted_line_ids)) =>
              /\ LineIds(resp.body.hits) = sorted_line_ids
              /\ \A n \in 1..Len(resp.body.hits) :
                    resp.body.hits[n] = DictGet(hits_by_id, resp.body.hits[n].line_id, None)

\* line_id 0 is repeated in the lexical list and another line_id, absent from
\* the lexical list, is repeated in the semantic list
C24_Witness ==
    /\ Answered
    /\ req.size = default_size
    /\ Cardinality(Occurrences(Lexical, 0)) = 2
    /\ \E id \in Ids(Semantic) \ Ids(Lexical) : Cardinality(Occurrences(Semantic, id)) = 2
    /\ Len(resp.body.hits) = 3
    /\ \E n \in 1..3 : /\ resp.body.hits[n].line_id = 0
                       /\ resp.body.hits[n] = term_results.hits[Largest(Occurrences(Lexical, 0))]

\* C28: load_shakespeare_data yields floor(n / 2) documents for a file of n
\* lines, in file order, the i-th from line 2i (its index._id is the _id) and
\* line 2i + 1 (the _source), all for index shakespeare; an unpaired last line
\* is dropped.
C28_Loader ==
    script.name = "load_shakespeare_data" =>
        /\ \A j \in 1..Len(script.yielded) :
              /\ script.yielded[j]._index = "shakespeare"
              /\ script.yielded[j]._id = script.lines[2 * (j - 1) + 1][2]
              /\ script.yielded[j]._source = [text_entry |-> script.lines[2 * (j - 1) + 2][2]]
        /\ Len(script.yielded) = Min(script.i, Len(script.lines)) \div 2
        /\ script.pc = "exhausted" => Len(script.yielded) = Len(script.lines) \div 2

\* a file of five lines gave two different documents and its last line none
C28_Witness ==
    /\ script.name = "load_shakespeare_data"
    /\ script.pc = "exhausted"
    /\ Len(script.lines) = 5
    /\ Len(script.yielded) = 2
    /\ script.yielded[1]._id # script.yielded[2]._id
    /\ script.yielded[1]._id # script.yielded[1]._source.text_entry

\* C27: deploy_elser_model returns without starting a deployment when the
\* model is listed; otherwise it starts one and returns only on the state
\* 'started', raises when that state was not seen within the wait of 300
\* seconds, and starts the deployment also after an error of the listing.
C27_Deploy ==
    /\ [](script.name = "deploy_elser_model" =>
             /\ cluster.listing = "listed" =>
                   (script.pc \in {"list", "returned"}
                    /\ ~Issued("ml.start_trained_model_deployment"))
             /\ (cluster.listing # "listed" /\ script.pc = "returned") =>
                   /\ Issued("ml.start_trained_model_deployment")
                   /\ script.observed = "started"
                   /\ script.elapsed < 300
             /\ script.pc = "raised" =>
                   /\ Issued("ml.start_trained_model_deployment")
                   /\ script.observed # "started"
                   /\ ~cluster.start_ok \/ script.elapsed >= 300
             /\ (cluster.listing = "error" /\ script.pc \notin {"list", "start"}) =>
                   Issued("ml.start_trained_model_deployment"))
    /\ [][(script.name = "deploy_elser_model" /\ script.pc = "wait"
           /\ script.elapsed >= 300) => script'.pc = "raised"]_vars

\* the listing failed, the deployment was started, and the wait ran out
\* while the model was starting
C27_Witness ==
    /\ script.name = "deploy_elser_model"
    /\ cluster.listing = "error"
    /\ script.pc = "raised"
    /\ script.elapsed = 300
    /\ script.observed = "starting"
    /\ Issued("ml.get_trained_model_deployment_stats")

\* positions of a call in the calls of a script
At(api, target) == {n \in 1..Len(calls) : calls[n] = Op(api, target)}
Precedes(first, second) == \A n \in second : \E m \in first : m < n

\* C25: a semantic ingest script deletes, creates or fills the index
\* 'shakespeare-semantic' only after the credentials, the ping and the check
\* of the index 'shakespeare' succeeded; the index is created only when it
\* is not there, after the deletion of an existing one; the reindex starts
\* after the creation of the index and, where the script has one, of the
\* ingest pipeline.
C25_Guarded ==
    script.name \in Scripts =>
       LET delete == At("indices.delete", Semantic_index)
           create == At("indices.create", Semantic_index)
           reindex == At("reindex", Semantic_index)
           pipeline == At("ingest.put_pipeline", Pipeline(script.name))
       IN  /\ (delete \cup create \cup reindex # {}) =>
                 /\ cluster.credentials /\ cluster.ping /\ cluster.source
                 /\ Precedes(At("ping", "cluster"), delete \cup create \cup reindex)
                 /\ Precedes(At("indices.exists", "shakespeare"),
                             delete \cup create \cup reindex)
           /\ Running("create") => ~semExists
           /\ \A n \in create : \A m \in delete : m < n
           /\ Cardinality(delete) <= 1 /\ Cardinality(create) <= 1
           /\ Precedes(create, reindex)
           /\ Running("reindex") => semExists
           /\ script.name # "ingest_shakespeare_semantic" =>
                 /\ Precedes(pipeline, reindex)
                 /\ Running("reindex") => cluster.pipeline

\* the dual script replaced an existing index, put its pipeline and started
\* the reindex
C25_Witness ==
    /\ script.name = "ingest_shakespeare_dual_semantic"
    /\ script.pc = "poll"
    /\ Issued("indices.delete")
    /\ Issued("indices.create")
    /\ Issued("ingest.put_pipeline")
    /\ Issued("reindex")
    /\ semExists

\* C26: the monitor loop is left, and the index refreshed, only when the
\* engine reported the task as completed; when the task is completed the
\* function comes to its end; while the task is not completed a turn of
\* the loop stays in the loop whatever the number of polls (an error of the
\* poll itself leaves main as an exception).
C26_Monitor ==
    /\ [](script.name \in Scripts =>
             ((script.pc \in {"refresh", "stats", "verify", "done"}
               \/ Issued("indices.refresh"))
              => cluster.task = "completed"))
    /\ [][(Running("poll") /\ cluster.task # "completed" /\ cluster.fails # "poll")
          => script'.pc = "poll"]_vars
    /\ ((Running("poll") /\ cluster.task = "completed")
        ~> (script.pc \in {"verify", "done", "raised"}))

\* the task completed after more than MaxPolls polls, the index was
\* refreshed and the script ended
C26_Witness ==
    /\ script.name \in Scripts
    /\ script.pc = "done"
    /\ script.polls = MaxPolls
    /\ Issued("indices.refresh")
    /\ cluster.task = "completed"

====
